---- MODULE Spec2Model ----
(***************************************************************************)
(* A model of rpcore/render_pipeline.py (class RenderPipeline) and of the  *)
(* color_correction plugin's SharpenStage.                                 *)
(*                                                                         *)
(* The pipeline is modelled as a state machine.  Each public method, task  *)
(* or event handler of RenderPipeline is one action; the per-thread steps  *)
(* of the plugin reload queue are modelled at the granularity at which the *)
(* two threads can interleave.                                             *)
(***************************************************************************)
EXTENDS Integers, Sequences, FiniteSets, TLC

VARIABLES
    \* ---- effects and their bindings (set_effect / reload_shaders)
    _applied_effects,   \* the replay log: sequence of set_effect argument tuples
    node_state,         \* per node, per pass: visibility under the pass mask, shader, sort
    replayed,           \* the entries the latest reload_shaders re-applied, in order
    log,                \* messages written by the last operation (error / warn)
    calls,              \* collaborator calls made by the last operation, in order
    lastOp,             \* name of the last operation that ran
    \* ---- the stage graph (stage_mgr.add_stage / stage_mgr.setup)
    stages,             \* the registered stages, in registration order
    setup_status,       \* "pending", "ok" or "fatal"
    stage_order,        \* the resolved execution order
    allocated,          \* the stages whose resources were created
    _stage_instances,   \* the keys of self._stage_instances: the built-in stage classes
    \* ---- the plugin reload queue (watcher thread / main thread)
    _queued_plugin_reloads, \* the set self._queued_plugin_reloads refers to
    to_reload,          \* the set the running task drains (its local to_reload)
    visited,            \* the ids the task's for loop has already yielded
    iter_modified,      \* to_reload changed size since the for loop started
    main_pc,            \* "idle", "iterating" or "crashed"
    watcher_pc,         \* "idle" or "adding" (set loaded, add not yet called)
    watcher_plugin,     \* the plugin id on_modified is about to add
    watcher_ref,        \* the set on_modified loaded: "queued", "to_reload", "dead"
    reload_calls,       \* per plugin: reload_shaders calls in the current run
    \* history of the reload queue, for the properties
    watcher_whole,      \* the running on_modified started after the last run ended
    between,            \* per plugin: on_modified calls that ran between two runs
    expected,           \* the plugins enqueued between the last two runs
    lost,               \* ids added to a set no run will drain
    \* ---- configuration and the per-frame tasks
    settings,           \* self.settings, the keys the pipeline reads
    enabled_plugins,    \* the plugins plugin_mgr.is_plugin_enabled answers True for
    tick_trace,         \* the tasks that ran so far in the current frame, in order
    frame_count,        \* Globals.clock.get_frame_count()
    loading_screen,     \* the loading screen is still shown
    \* ---- window and resolutions
    win_size,           \* the window's size, as win.get_x_size() / get_y_size() report it
    native_resolution,  \* Globals.native_resolution
    resolution,         \* Globals.resolution, the render resolution
    _last_window_dims,  \* the window size of the last resize that was handled
    size_request,       \* the size last asked of the window with request_properties
    ev_repeat,          \* the last window event reported the size the one before reported
    \* ---- the menu
    _rendering_enabled, \* self._rendering_enabled
    rendering_paused,   \* stage_mgr.pause_rendering() was called last, not resume_rendering()
    blur_enabled,       \* MenuBlurStage.enable_blur() was called last, not disable_blur()
    \* ---- the file watcher's events
    last_path,          \* event.src_path of the last on_modified(event), as characters
    \* ---- create()
    supports_compute_shaders, \* win.gsg.supports_compute_shaders
    create_status,      \* "new", "created", or "fatal" once create() gave up
    added_tasks         \* the names of the tasks _init_bindings registered

effectVars == <<_applied_effects, node_state, replayed>>

opVars == <<log, calls, lastOp>>

stageVars == <<stages, setup_status, stage_order, allocated, _stage_instances>>

reloadVars == <<_queued_plugin_reloads, to_reload, visited, iter_modified,
                main_pc, watcher_pc, watcher_plugin, watcher_ref, reload_calls,
                watcher_whole, between, expected, lost>>

frameVars == <<tick_trace, frame_count, loading_screen>>

resizeVars == <<win_size, native_resolution, resolution, _last_window_dims,
                size_request, ev_repeat>>

configVars == <<settings, enabled_plugins>>

menuVars == <<_rendering_enabled, rendering_paused, blur_enabled>>

createVars == <<supports_compute_shaders, create_status, added_tasks>>

vars == <<effectVars, opVars, stageVars, reloadVars, configVars, frameVars, resizeVars,
          menuVars, last_path, createVars>>

-----------------------------------------------------------------------------
(* Bounds of the model                                                     *)

\* longest replay log explored
MaxLog == 2

\* most notifications counted for one plugin between two runs of the reload task
MaxNotify == 2

\* number of frames explored
MaxFrames == 12

\* largest window width and height explored
MaxDim == 9

-----------------------------------------------------------------------------
(* Effects (rpcore.effect.Effect)                                          *)

\* Effect.PASSES, in pass order
Passes == <<"gbuffer", "forward", "forward_prepass", "shadow", "voxelize", "envmap">>

PassSet == {Passes[i] : i \in 1..Len(Passes)}

\* scene nodes effects are bound to
Nodes == {"render", "model"}

\* effect source files handed to set_effect
EffectSources == {"effects/default.yaml", "effects/missing.yaml"}

\* the sources Effect.load can load; for the others it returns None
Loadable == {"effects/default.yaml"}

\* merged option tables an effect can end up with, as the set of passes p
\* with render_<p> enabled
OptionTables ==
    { {"gbuffer", "shadow", "voxelize", "envmap"},
      {"forward", "forward_prepass", "shadow"},
      {"gbuffer", "forward"},
      {"gbuffer", "forward_prepass"},
      {} }

\* sort values passed by callers: the default effect's, the default
\* argument's, the skybox's
Sorts == {-10, 30, 1000}

\* Effect.load returns None
EffectIsNone(effect_src) == effect_src \notin Loadable

\* Effect.load(effect_src, options) for a source that loads
Effect_load(effect_src, options) ==
    [effect_id |-> <<effect_src, options>>, options |-> options]

\* effect.get_option("render_" + stage)
get_option(effect, stage) == stage \in effect.options

\* effect.get_shader_obj(stage)
get_shader_obj(effect, stage) == [effect_id |-> effect.effect_id, pass |-> stage]

NoShader == [effect_id |-> <<"none", {}>>, pass |-> "none"]

\* the state of a node under one pass before anything was bound to it
Unbound == [vis |-> "inherit", shader |-> NoShader, sort |-> 0]

\* argument tuples of set_effect
Args == [nodepath : Nodes, effect_src : EffectSources,
         options : OptionTables, sort : Sorts]

MsgNoEffect == "error: Could not apply effect"
MsgBoth == "error: You cannot render an object forward and deferred at the same time!"
MsgPrepass == "error: render_forward_prepass specified, but not render_forward!"

-----------------------------------------------------------------------------
(* _internal_set_effect                                                    *)

\* variant of EffectSort that leaves the caller's sort out
EffectSort_NoCallerSort(stage, i, sort) ==
    IF stage = "gbuffer" THEN 25 ELSE 25 + 10 * i

\* variant of the sort computation that lowers the sort by the caller's
EffectSort_SortSubtracted(stage, i, sort) ==
    IF stage = "gbuffer" THEN 25 ELSE 25 + 10 * i - sort

\* the sort the shader of pass number i (counted from 0) is applied with
EffectSort(stage, i, sort) ==
    IF stage = "gbuffer" THEN 25 ELSE 25 + 10 * i + sort

\* variant of BindPass that hides the forward pass of an effect that also
\* enables gbuffer
BindPass_DeferredWins(st, effect, k, sort) ==
    LET stage == Passes[k] IN
    IF ~get_option(effect, stage)
          \/ (stage = "forward" /\ get_option(effect, "gbuffer"))
    THEN [st EXCEPT ![stage].vis = "hidden"]
    ELSE [st EXCEPT ![stage] =
            [vis |-> "shown",
             shader |-> get_shader_obj(effect, stage),
             sort |-> EffectSort(stage, k - 1, sort)]]

\* variant of BindPass that leaves out show_through
BindPass_NoShowThrough(st, effect, k, sort) ==
    LET stage == Passes[k] IN
    IF ~get_option(effect, stage)
    THEN [st EXCEPT ![stage].vis = "hidden"]
    ELSE [st EXCEPT ![stage] =
            [vis |-> st[stage].vis,
             shader |-> get_shader_obj(effect, stage),
             sort |-> EffectSort(stage, k - 1, sort)]]

\* variant of the loop body that skips the forward prepass of an effect
\* without forward rendering
BindPass_PrepassNeedsForward(st, effect, k, sort) ==
    LET stage == Passes[k] IN
    IF ~get_option(effect, stage)
         \/ (stage = "forward_prepass" /\ ~get_option(effect, "forward"))
    THEN [st EXCEPT ![stage].vis = "hidden"]
    ELSE [st EXCEPT ![stage] =
            [vis |-> "shown",
             shader |-> get_shader_obj(effect, stage),
             sort |-> EffectSort(stage, k - 1, sort)]]

\* variant of the loop body that leaves a pass alone when the node already
\* carries a shader of that pass with a sort that is not lower
BindPass_SortGuarded(st, effect, k, sort) ==
    LET stage == Passes[k] IN
    IF st[stage].shader # NoShader /\ st[stage].sort >= EffectSort(stage, k - 1, sort)
    THEN st
    ELSE IF ~get_option(effect, stage)
    THEN [st EXCEPT ![stage].vis = "hidden"]
    ELSE [st EXCEPT ![stage] =
            [vis |-> "shown",
             shader |-> get_shader_obj(effect, stage),
             sort |-> EffectSort(stage, k - 1, sort)]]

\* one iteration of the loop over Effect.PASSES: st is the node's state
BindPass(st, effect, k, sort) ==
    LET stage == Passes[k] IN
    IF ~get_option(effect, stage)
    THEN [st EXCEPT ![stage].vis = "hidden"]
    ELSE [st EXCEPT ![stage] =
            [vis |-> "shown",
             shader |-> get_shader_obj(effect, stage),
             sort |-> EffectSort(stage, k - 1, sort)]]

RECURSIVE BindPasses(_, _, _, _)
\* the loop over Effect.PASSES from pass number k on
BindPasses(st, effect, k, sort) ==
    IF k > Len(Passes) THEN st
    ELSE BindPasses(BindPass(st, effect, k, sort), effect, k + 1, sort)

\* the node states after _internal_set_effect(*args)
InternalSetEffect(ns, args) ==
    IF EffectIsNone(args.effect_src) THEN ns
    ELSE [ns EXCEPT ![args.nodepath] =
            BindPasses(ns[args.nodepath],
                       Effect_load(args.effect_src, args.options), 1, args.sort)]

\* variant of _internal_set_effect that does not check the options
InternalSetEffectLog_NoValidation(args) ==
    IF EffectIsNone(args.effect_src) THEN <<MsgNoEffect>> ELSE <<>>

\* the messages _internal_set_effect(*args) logs
InternalSetEffectLog(args) ==
    IF EffectIsNone(args.effect_src) THEN <<MsgNoEffect>>
    ELSE LET effect == Effect_load(args.effect_src, args.options) IN
         (IF get_option(effect, "gbuffer") /\ get_option(effect, "forward")
          THEN <<MsgBoth>> ELSE <<>>)
         \o
         (IF get_option(effect, "forward_prepass") /\ ~get_option(effect, "forward")
          THEN <<MsgPrepass>> ELSE <<>>)

-----------------------------------------------------------------------------
(* set_effect, _apply_custom_shaders, reload_shaders                       *)

\* variant of set_effect that records only the calls whose effect loads
AppendArgs_OnlyLoaded(applied, args) ==
    IF EffectIsNone(args.effect_src) THEN applied ELSE Append(applied, args)

\* the log after set_effect appended args
AppendArgs(applied, args) == Append(applied, args)

set_effect ==
    /\ Len(_applied_effects) < MaxLog
    /\ \E args \in Args :
        /\ _applied_effects' = AppendArgs(_applied_effects, args)
        /\ node_state' = InternalSetEffect(node_state, args)
        /\ log' = InternalSetEffectLog(args)
        /\ calls' = <<"_internal_set_effect">>
    /\ lastOp' = "set_effect"
    /\ UNCHANGED <<replayed, stageVars, reloadVars, configVars, createVars, menuVars, last_path, frameVars, resizeVars>>

\* the options effects/default.yaml resolves to when none are passed: the
\* deferred passes are enabled, the forward passes are not
DefaultOptions == {"gbuffer", "shadow", "voxelize", "envmap"}

\* the arguments of the call in _set_default_effect
DefaultEffectArgs ==
    [nodepath |-> "render", effect_src |-> "effects/default.yaml",
     options |-> DefaultOptions, sort |-> -10]

\* _set_default_effect(): set_effect(Globals.render, "effects/default.yaml", {}, -10)
_set_default_effect ==
    /\ Len(_applied_effects) < MaxLog
    /\ _applied_effects' = AppendArgs(_applied_effects, DefaultEffectArgs)
    /\ node_state' = InternalSetEffect(node_state, DefaultEffectArgs)
    /\ log' = InternalSetEffectLog(DefaultEffectArgs)
    /\ calls' = <<"set_effect", "_internal_set_effect">>
    /\ lastOp' = "_set_default_effect"
    /\ UNCHANGED <<replayed, stageVars, reloadVars, configVars, createVars, menuVars, last_path, frameVars, resizeVars>>

\* tag_mgr.cleanup_states(): every state registered through apply_state is
\* dropped; the shader set on the node itself (gbuffer) and the masks stay
cleanup_states(ns) ==
    [n \in Nodes |-> [p \in PassSet |->
        IF p = "gbuffer" THEN ns[n][p]
        ELSE [vis |-> ns[n][p].vis, shader |-> NoShader, sort |-> 0]]]

RECURSIVE ReplayFrom(_, _, _)
\* for args in self._applied_effects: self._internal_set_effect(*args),
\* from entry number i on; st.ns is the node states, st.trace the entries
\* applied so far
ReplayFrom(st, applied, i) ==
    IF i > Len(applied) THEN st
    ELSE ReplayFrom([ns |-> InternalSetEffect(st.ns, applied[i]),
                     trace |-> Append(st.trace, applied[i])],
                    applied, i + 1)

RECURSIVE ReplayLogFrom(_, _)
ReplayLogFrom(applied, i) ==
    IF i > Len(applied) THEN <<>>
    ELSE InternalSetEffectLog(applied[i]) \o ReplayLogFrom(applied, i + 1)

Reverse(s) == [i \in 1..Len(s) |-> s[Len(s) + 1 - i]]

\* variant of _apply_custom_shaders that replays the log backwards
_apply_custom_shaders_Reversed(ns, applied) ==
    ReplayFrom([ns |-> ns, trace |-> <<>>], Reverse(applied), 1)

RECURSIVE LatestOnly(_, _)
\* the entries from number i on that no later entry of the same node follows
LatestOnly(applied, i) ==
    IF i > Len(applied) THEN <<>>
    ELSE (IF \E j \in (i + 1)..Len(applied) : applied[j].nodepath = applied[i].nodepath
          THEN <<>> ELSE <<applied[i]>>)
         \o LatestOnly(applied, i + 1)

\* variant of _apply_custom_shaders that replays only the latest binding of
\* each node
_apply_custom_shaders_LatestOnly(ns, applied) ==
    ReplayFrom([ns |-> ns, trace |-> <<>>], LatestOnly(applied, 1), 1)

\* _apply_custom_shaders(): the node states after the replay and the entries
\* it applied, in the order it applied them
_apply_custom_shaders(ns, applied) ==
    ReplayFrom([ns |-> ns, trace |-> <<>>], applied, 1)

\* variant of reload_shaders that re-applies the effects before it broadcasts
\* the shader_reload hook
ReloadCalls_ReplayBeforeHook(cfg, applied) ==
    (IF cfg.display_debugger
     THEN <<"debugger.clear_messages", "debugger.set_reload_hint_visible",
            "graphics_engine.render_frame">>
     ELSE <<>>)
    \o <<"tag_mgr.cleanup_states", "stage_mgr.reload_shaders", "light_mgr.reload_shaders">>
    \o (IF cfg.display_debugger THEN <<"debugger.set_reload_hint_visible">> ELSE <<>>)
    \o <<"_apply_custom_shaders">>
    \o [i \in 1..Len(applied) |-> "_internal_set_effect"]
    \o <<"hook:shader_reload">>

\* the calls of reload_shaders, in the order of the code: one
\* _internal_set_effect for every entry of the replay log
ReloadCalls(cfg, applied) ==
    (IF cfg.display_debugger
     THEN <<"debugger.clear_messages", "debugger.set_reload_hint_visible",
            "graphics_engine.render_frame">>
     ELSE <<>>)
    \o <<"tag_mgr.cleanup_states", "stage_mgr.reload_shaders", "light_mgr.reload_shaders",
          "hook:shader_reload">>
    \o (IF cfg.display_debugger THEN <<"debugger.set_reload_hint_visible">> ELSE <<>>)
    \o <<"_apply_custom_shaders">>
    \o [i \in 1..Len(applied) |-> "_internal_set_effect"]

reload_shaders ==
    /\ LET replay == _apply_custom_shaders(cleanup_states(node_state), _applied_effects)
       IN /\ node_state' = replay.ns
          /\ replayed' = replay.trace
    /\ log' = ReplayLogFrom(_applied_effects, 1)
    /\ calls' = ReloadCalls(settings, _applied_effects)
    /\ lastOp' = "reload_shaders"
    /\ UNCHANGED <<_applied_effects, stageVars, reloadVars, configVars, createVars, menuVars, last_path, frameVars, resizeVars>>

-----------------------------------------------------------------------------
(* The stage graph                                                         *)

\* variant of SharpenStage that requires no pipe
SharpenRequiredPipes_None == {}

\* SharpenStage.required_pipes
SharpenRequiredPipes == {"ShadedScene"}

\* SharpenStage.produced_pipes: the names of the pipes of the property's dict
SharpenProducedPipes(sharpen_twice) ==
    IF sharpen_twice THEN {"ShadedScene"} ELSE {"ShadedScene"}

\* the stages that can be registered: SharpenStage, and stages A, B, C, P, Q
\* standing for the other stages of a pipeline (A feeds B feeds C; P and Q
\* feed each other)
StageNames == {"SharpenStage", "A", "B", "C", "P", "Q"}

required_pipes(stage) ==
    CASE stage = "SharpenStage" -> SharpenRequiredPipes
      [] stage = "A" -> {}
      [] stage = "B" -> {"X"}
      [] stage = "C" -> {"Y", "ShadedScene"}
      [] stage = "P" -> {"QOut"}
      [] stage = "Q" -> {"POut"}

produced_pipes(stage) ==
    CASE stage = "SharpenStage" -> SharpenProducedPipes(TRUE)
      [] stage = "A" -> {"X", "ShadedScene"}
      [] stage = "B" -> {"Y"}
      [] stage = "C" -> {}
      [] stage = "P" -> {"POut"}
      [] stage = "Q" -> {"QOut"}

\* stage_mgr.add_stage(stage)
add_stage ==
    /\ setup_status = "pending"
    /\ \E stage \in StageNames \ {stages[i] : i \in 1..Len(stages)} :
        stages' = Append(stages, stage)
    /\ log' = <<>>
    /\ calls' = <<"stage_mgr.add_stage">>
    /\ lastOp' = "add_stage"
    /\ UNCHANGED <<setup_status, stage_order, allocated, _stage_instances, effectVars, reloadVars, configVars, createVars, menuVars, last_path, frameVars, resizeVars>>

\* the pipes produced by the stages of a sequence
PipesOf(order) == UNION {produced_pipes(order[i]) : i \in 1..Len(order)}

\* some registered stage requires a pipe no registered stage produces
Unproduced(registered) ==
    \E i \in 1..Len(registered) :
        ~(required_pipes(registered[i]) \subseteq PipesOf(registered))

\* a stage may run once every registered producer of each pipe it requires
\* has been placed
Ready(registered, placed, stage) ==
    \A i \in 1..Len(registered) :
        (produced_pipes(registered[i]) \cap required_pipes(stage) # {})
            => registered[i] \in {placed[j] : j \in 1..Len(placed)}

RECURSIVE Resolve(_, _)
\* the stable topological sort: repeatedly place the earliest registered
\* stage that is ready; <<"fatal">> when none is ready and stages remain
Resolve(registered, placed) ==
    LET left == {i \in 1..Len(registered) :
                    registered[i] \notin {placed[j] : j \in 1..Len(placed)}}
        ready == {i \in left : Ready(registered, placed, registered[i])}
    IN  IF left = {} THEN placed
        ELSE IF ready = {} THEN <<"fatal">>
        ELSE LET first == CHOOSE i \in ready : \A j \in ready : i <= j
             IN Resolve(registered, Append(placed, registered[first]))

\* stage_mgr.setup(): resolve the order, then create every stage's resources
stage_mgr_setup ==
    /\ setup_status = "pending"
    /\ LET order == IF Unproduced(stages) THEN <<"fatal">> ELSE Resolve(stages, <<>>)
       IN IF order = <<"fatal">>
          THEN /\ setup_status' = "fatal"
               /\ stage_order' = <<>>
               /\ allocated' = {}
               /\ log' = <<"fatal: stage graph cannot be resolved">>
          ELSE /\ setup_status' = "ok"
               /\ stage_order' = order
               /\ allocated' = {order[i] : i \in 1..Len(order)}
               /\ log' = <<>>
    /\ calls' = <<"stage_mgr.setup">>
    /\ lastOp' = "stage_mgr.setup"
    /\ UNCHANGED <<stages, _stage_instances, effectVars, reloadVars, configVars, createVars, menuVars, last_path, frameVars, resizeVars>>

InitStages ==
    /\ stages = <<>>
    /\ setup_status = "pending"
    /\ stage_order = <<>>
    /\ allocated = {}
    /\ _stage_instances = {}

NextStages ==
    \/ add_stage
    \/ stage_mgr_setup

-----------------------------------------------------------------------------
(* The plugin reload queue: EventHandler.on_modified runs on the watchdog  *)
(* observer thread, _process_plugin_reload_queue is a task of the main     *)
(* thread.  Neither takes a lock; the steps below are the points at which  *)
(* the interpreter can switch threads.                                     *)

\* plugin ids the watcher can derive from a path
PluginIds == {"bloom", "ao", "not_a_plugin"}

\* self.plugin_mgr.instances
instances == {"bloom", "ao"}

\* on_modified up to the evaluation of rp_instance._queued_plugin_reloads:
\* the path is a .glsl file below base_path, and the set the attribute
\* refers to at this moment is loaded
on_modified_load ==
    /\ watcher_pc = "idle"
    /\ \E plugin_id \in PluginIds :
        /\ between[plugin_id] < MaxNotify
        /\ watcher_plugin' = plugin_id
    /\ watcher_pc' = "adding"
    /\ watcher_ref' = "queued"
    /\ watcher_whole' = (main_pc = "idle")
    /\ log' = <<>>
    /\ calls' = <<>>
    /\ lastOp' = "on_modified"
    /\ UNCHANGED <<_queued_plugin_reloads, to_reload, visited, iter_modified,
                   main_pc, reload_calls, between, expected, lost>>
    /\ UNCHANGED <<effectVars, stageVars, configVars, createVars, menuVars, last_path, frameVars, resizeVars>>

\* on_modified: .add(plugin_id) on the set that was loaded
on_modified_add ==
    /\ watcher_pc = "adding"
    /\ CASE watcher_ref = "queued" ->
                /\ _queued_plugin_reloads' = _queued_plugin_reloads \cup {watcher_plugin}
                /\ UNCHANGED <<to_reload, iter_modified, lost>>
         [] watcher_ref = "to_reload" ->
                /\ to_reload' = to_reload \cup {watcher_plugin}
                /\ iter_modified' = (iter_modified \/ watcher_plugin \notin to_reload)
                /\ UNCHANGED <<_queued_plugin_reloads, lost>>
         [] watcher_ref = "dead" ->
                /\ lost' = lost \cup {watcher_plugin}
                /\ UNCHANGED <<_queued_plugin_reloads, to_reload, iter_modified>>
    /\ between' = IF watcher_whole
                  THEN [between EXCEPT ![watcher_plugin] = @ + 1]
                  ELSE between
    /\ watcher_pc' = "idle"
    /\ watcher_whole' = FALSE
    /\ log' = <<>>
    /\ calls' = <<>>
    /\ lastOp' = "on_modified"
    /\ UNCHANGED <<visited, main_pc, watcher_plugin, watcher_ref, reload_calls, expected>>
    /\ UNCHANGED <<effectVars, stageVars, configVars, createVars, menuVars, last_path, frameVars, resizeVars>>

\* _process_plugin_reload_queue, line 466:
\* to_reload, self._queued_plugin_reloads = self._queued_plugin_reloads, set()
process_swap ==
    /\ main_pc = "idle"
    /\ to_reload' = _queued_plugin_reloads
    /\ _queued_plugin_reloads' = {}
    /\ visited' = {}
    /\ iter_modified' = FALSE
    /\ main_pc' = "iterating"
    /\ reload_calls' = [p \in PluginIds |-> 0]
    /\ watcher_ref' = IF watcher_pc = "adding" /\ watcher_ref = "queued"
                      THEN "to_reload" ELSE watcher_ref
    /\ watcher_whole' = FALSE
    /\ expected' = {p \in PluginIds : between[p] >= 1}
    /\ between' = [p \in PluginIds |-> 0]
    /\ log' = <<>>
    /\ calls' = <<>>
    /\ lastOp' = "_process_plugin_reload_queue"
    /\ UNCHANGED <<watcher_pc, watcher_plugin, lost>>
    /\ UNCHANGED <<effectVars, stageVars, configVars, createVars, menuVars, last_path, frameVars, resizeVars>>

\* the set the task drained is unreachable once the task has left the loop
DropToReload ==
    watcher_ref' = IF watcher_ref = "to_reload" THEN "dead" ELSE watcher_ref

\* one step of "for plugin_id in to_reload" that yields an id, and the loop
\* body for that id
process_iterate ==
    /\ main_pc = "iterating"
    /\ ~iter_modified
    /\ \E plugin_id \in to_reload \ visited :
        /\ visited' = visited \cup {plugin_id}
        /\ IF plugin_id \notin instances
           THEN /\ log' = <<"warn: Got invalid plugin_id">>
                /\ calls' = <<>>
                /\ UNCHANGED reload_calls
           ELSE /\ log' = <<>>
                /\ calls' = <<"instance.reload_shaders">>
                /\ reload_calls' = [reload_calls EXCEPT ![plugin_id] = @ + 1]
    /\ lastOp' = "_process_plugin_reload_queue"
    /\ UNCHANGED <<_queued_plugin_reloads, to_reload, iter_modified, main_pc,
                   watcher_pc, watcher_plugin, watcher_ref, watcher_whole,
                   between, expected, lost>>
    /\ UNCHANGED <<effectVars, stageVars, configVars, createVars, menuVars, last_path, frameVars, resizeVars>>

\* the step of the for loop that finds the set exhausted: return task.cont
process_finish ==
    /\ main_pc = "iterating"
    /\ ~iter_modified
    /\ to_reload \ visited = {}
    /\ main_pc' = "idle"
    /\ DropToReload
    /\ log' = <<>>
    /\ calls' = <<>>
    /\ lastOp' = "_process_plugin_reload_queue"
    /\ UNCHANGED <<_queued_plugin_reloads, to_reload, visited, iter_modified,
                   watcher_pc, watcher_plugin, watcher_whole, reload_calls,
                   between, expected, lost>>
    /\ UNCHANGED <<effectVars, stageVars, configVars, createVars, menuVars, last_path, frameVars, resizeVars>>

\* the step of the for loop after the set changed size: the set iterator
\* raises RuntimeError, which leaves the task
process_raise ==
    /\ main_pc = "iterating"
    /\ iter_modified
    /\ main_pc' = "crashed"
    /\ DropToReload
    /\ log' = <<"RuntimeError: Set changed size during iteration">>
    /\ calls' = <<>>
    /\ lastOp' = "_process_plugin_reload_queue"
    /\ UNCHANGED <<_queued_plugin_reloads, to_reload, visited, iter_modified,
                   watcher_pc, watcher_plugin, watcher_whole, reload_calls,
                   between, expected, lost>>
    /\ UNCHANGED <<effectVars, stageVars, configVars, createVars, menuVars, last_path, frameVars, resizeVars>>

InitReload ==
    /\ _queued_plugin_reloads = {}
    /\ to_reload = {}
    /\ visited = {}
    /\ iter_modified = FALSE
    /\ main_pc = "idle"
    /\ watcher_pc = "idle"
    /\ watcher_plugin = "bloom"
    /\ watcher_ref = "queued"
    /\ reload_calls = [p \in PluginIds |-> 0]
    /\ watcher_whole = FALSE
    /\ between = [p \in PluginIds |-> 0]
    /\ expected = {}
    /\ lost = {}

NextReload ==
    \/ on_modified_load
    \/ on_modified_add
    \/ process_swap
    \/ process_iterate
    \/ process_finish
    \/ process_raise

-----------------------------------------------------------------------------
(* EventHandler.on_modified: from the path of the event to the plugin id.  *)
(* A path is the sequence of its characters.                               *)

\* base_path: the plugins root, here /pl
base_path == <<"/", "p", "l">>

\* ".glsl"
GlslSuffix == <<".", "g", "l", "s", "l">>

\* the paths of the events: shader files of the plugins ao and bloom, a file
\* that is no shader, a shader outside the root, a shader in the sibling
\* directory /pl_old, a Windows path, a shader directly in the root, a shader
\* in a subdirectory of a plugin, a path with a doubled separator, the file
\* /pl.glsl next to the root, the root itself
EventPaths ==
    { <<"/", "p", "l", "/", "a", "o", "/", "f">> \o GlslSuffix,
      <<"/", "p", "l", "/", "b", "l", "o", "o", "m", "/", "f">> \o GlslSuffix,
      <<"/", "p", "l", "/", "a", "o", "/", "f", ".", "t", "x", "t">>,
      <<"/", "x", "/", "a", "o", "/", "f">> \o GlslSuffix,
      <<"/", "p", "l", "_", "o", "l", "d", "/", "a", "o", "/", "f">> \o GlslSuffix,
      <<"\\", "p", "l", "\\", "a", "o", "\\", "f">> \o GlslSuffix,
      <<"/", "p", "l", "/", "f">> \o GlslSuffix,
      <<"/", "p", "l", "/", "a", "o", "/", "s", "/", "f">> \o GlslSuffix,
      <<"/", "p", "l", "/", "/", "b", "l", "o", "o", "m", "/", "f">> \o GlslSuffix,
      <<"/", "p", "l">> \o GlslSuffix,
      <<"/", "p", "l">> }

\* s.replace("\\", "/")
ReplaceBackslashes(s) == [i \in 1..Len(s) |-> IF s[i] = "\\" THEN "/" ELSE s[i]]

\* s.startswith(prefix)
StartsWith(s, prefix) ==
    Len(s) >= Len(prefix) /\ SubSeq(s, 1, Len(prefix)) = prefix

\* s.endswith(suffix)
EndsWith(s, suffix) ==
    Len(s) >= Len(suffix) /\ SubSeq(s, Len(s) - Len(suffix) + 1, Len(s)) = suffix

RECURSIVE Strip(_)
\* s.strip("/")
Strip(s) ==
    IF s = <<>> THEN s
    ELSE IF Head(s) = "/" THEN Strip(Tail(s))
    ELSE IF s[Len(s)] = "/" THEN Strip(SubSeq(s, 1, Len(s) - 1))
    ELSE s

RECURSIVE FirstPart(_)
\* s.split("/")[0]
FirstPart(s) ==
    IF s = <<>> \/ Head(s) = "/" THEN <<>>
    ELSE <<Head(s)>> \o FirstPart(Tail(s))

\* the string a sequence of characters spells, for the names on_modified
\* can extract from the paths of the events
Spelled(chars) ==
    CASE chars = <<"a", "o">> -> "ao"
      [] chars = <<"b", "l", "o", "o", "m">> -> "bloom"
      [] chars = <<"_", "o", "l", "d">> -> "_old"
      [] chars = <<"f">> \o GlslSuffix -> "f.glsl"
      [] chars = GlslSuffix -> ".glsl"
      [] chars = <<>> -> ""

MsgUnknownFileEvent == "error: Unkown file event on"

\* on_modified(event) as a whole, while the reload task is not running
on_modified ==
    /\ main_pc = "idle"
    /\ watcher_pc = "idle"
    /\ \E src_path \in EventPaths :
        LET pth == ReplaceBackslashes(src_path) IN
        /\ last_path' = src_path
        /\ IF ~StartsWith(pth, base_path)
           THEN /\ log' = <<MsgUnknownFileEvent>>
                /\ UNCHANGED _queued_plugin_reloads
           ELSE IF ~EndsWith(pth, GlslSuffix)
           THEN /\ log' = <<>>
                /\ UNCHANGED _queued_plugin_reloads
           ELSE LET rest == SubSeq(pth, Len(base_path) + 1, Len(pth))
                    plugin_id == Spelled(FirstPart(Strip(rest)))
                IN /\ log' = <<>>
                   /\ _queued_plugin_reloads' = _queued_plugin_reloads \cup {plugin_id}
    /\ calls' = <<>>
    /\ lastOp' = "on_modified"
    /\ UNCHANGED <<to_reload, visited, iter_modified, main_pc, watcher_pc,
                   watcher_plugin, watcher_ref, reload_calls, watcher_whole,
                   between, expected, lost>>
    /\ UNCHANGED <<effectVars, stageVars, configVars, createVars, menuVars, frameVars, resizeVars>>

NextWatch == on_modified

-----------------------------------------------------------------------------
(* Configuration                                                           *)

\* pipeline.resolution_scale values, as fractions num/den
Scales == { [num |-> 1, den |-> 2], [num |-> 3, den |-> 4],
            [num |-> 1, den |-> 1], [num |-> 1001, den |-> 1000],
            [num |-> 3, den |-> 2] }

\* the keys of self.settings the model reads
Settings == [auto_reload_plugin_shaders : BOOLEAN, resolution_scale : Scales,
             reference_mode : BOOLEAN, display_debugger : BOOLEAN]

DefaultSettings ==
    [auto_reload_plugin_shaders |-> TRUE, resolution_scale |-> [num |-> 1, den |-> 1],
     reference_mode |-> FALSE, display_debugger |-> TRUE]

\* the plugins whose being enabled the pipeline asks about
Plugins == {"color_correction"}

\* plugin_mgr.is_plugin_enabled(plugin_id)
is_plugin_enabled(plugin_id) == plugin_id \in enabled_plugins

-----------------------------------------------------------------------------
(* The per-frame tasks.  The task manager runs the tasks of a frame in     *)
(* ascending order of their sort; a task that returns task.cont runs again *)
(* in the next frame.                                                      *)

\* the tasks added by _init_bindings and _initialize_plugin_watchdog, and the
\* igLoop task of ShowBase, which renders the frame
Tasks(cfg) ==
    { [name |-> "RP_UpdateManagers", sort |-> 10],
      [name |-> "RP_Plugin_BeforeRender", sort |-> 12],
      [name |-> "RP_Plugin_AfterRender", sort |-> 15],
      [name |-> "RP_UpdateInputsAndStages", sort |-> 18],
      [name |-> "igLoop", sort |-> 50],
      [name |-> "RP_CleanupAfterFrame", sort |-> 10000] }
    \cup (IF cfg.auto_reload_plugin_shaders
          THEN {[name |-> "RP_ProcessPluginReloadQueue", sort |-> 8]}
          ELSE {})

\* every task of the frame has run
FrameDone == \A t \in Tasks(settings) : \E i \in 1..Len(tick_trace) : tick_trace[i] = t.name

\* the tasks that ran in the frame the next task belongs to
TraceBase == IF FrameDone THEN <<>> ELSE tick_trace

\* the task the task manager runs next: the one of lowest sort among those
\* that have not run in this frame
NextTask ==
    LET left == {t \in Tasks(settings) :
                    \A i \in 1..Len(TraceBase) : TraceBase[i] # t.name}
    IN (CHOOSE t \in left : \A u \in left : t.sort <= u.sort).name

\* the task manager runs the task called name
RunTask(name) ==
    /\ NextTask = name
    /\ FrameDone => frame_count < MaxFrames
    /\ tick_trace' = Append(TraceBase, name)
    /\ frame_count' = IF FrameDone THEN frame_count + 1 ELSE frame_count
    /\ lastOp' = name
    /\ log' = <<>>
    /\ UNCHANGED <<effectVars, stageVars, reloadVars, configVars, createVars, menuVars, last_path, resizeVars>>

\* the reload task, as one step of the frame
_process_plugin_reload_queue ==
    /\ RunTask("RP_ProcessPluginReloadQueue")
    /\ calls' = <<>>
    /\ UNCHANGED loading_screen

_manager_update_task ==
    /\ RunTask("RP_UpdateManagers")
    /\ calls' = <<"task_scheduler.step", "_listener.update", "debugger.update",
                  "daytime_mgr.update", "light_mgr.update">>
    /\ loading_screen' = IF frame_count' = 10 THEN FALSE ELSE loading_screen

_plugin_pre_render_update ==
    /\ RunTask("RP_Plugin_BeforeRender")
    /\ calls' = <<"hook:pre_render_update">>
    /\ UNCHANGED loading_screen

_plugin_post_render_update ==
    /\ RunTask("RP_Plugin_AfterRender")
    /\ calls' = <<"hook:post_render_update">>
    /\ UNCHANGED loading_screen

_update_inputs_and_stages ==
    /\ RunTask("RP_UpdateInputsAndStages")
    /\ calls' = <<"common_resources.update", "stage_mgr.update">>
    /\ UNCHANGED loading_screen

\* ShowBase's igLoop: the frame is rendered
igLoop ==
    /\ RunTask("igLoop")
    /\ calls' = <<"graphics_engine.render_frame">>
    /\ UNCHANGED loading_screen

_cleanup_after_frame ==
    /\ RunTask("RP_CleanupAfterFrame")
    /\ calls' = <<"light_mgr.internal_mgr.post_render_callback">>
    /\ UNCHANGED loading_screen

InitFrameVars ==
    /\ tick_trace = <<>>
    /\ frame_count = 0
    /\ loading_screen = TRUE

NextFrame ==
    \/ _process_plugin_reload_queue
    \/ _manager_update_task
    \/ _plugin_pre_render_update
    \/ _plugin_post_render_update
    \/ _update_inputs_and_stages
    \/ igLoop
    \/ _cleanup_after_frame

-----------------------------------------------------------------------------
(* Window events and the render resolution                                 *)

\* window sizes
Dims == (1..MaxDim) \X (1..MaxDim)

\* x - x % 4
SnapDown(x) == x - (x % 4)

\* int(float(x) * scale_factor): the product, truncated
Scaled(x, scale) == (x * scale.num) \div scale.den

\* variant of _compute_render_resolution without the multiple-of-4 step
ComputeRenderResolution_NoSnap(native, scale) ==
    <<Scaled(native[1], scale), Scaled(native[2], scale)>>

\* _compute_render_resolution: the new Globals.resolution
ComputeRenderResolution(native, scale) ==
    <<SnapDown(Scaled(native[1], scale)), SnapDown(Scaled(native[2], scale))>>

\* variant of line 428 that compares with the last handled size only
ResizeSeen_IgnoresNative(window_dims) == window_dims # _last_window_dims

\* the resize branch of _handle_window_event is taken
ResizeSeen(window_dims) ==
    window_dims # _last_window_dims /\ window_dims # native_resolution

\* variant of line 429 that copies Globals.native_resolution, as line 351 does
LastDimsStored_OldNative(window_dims) == native_resolution

\* line 429: the value stored in self._last_window_dims
LastDimsStored(window_dims) == window_dims

\* the window dimensions after the correction to a multiple of 4
Corrected(window_dims) == <<SnapDown(window_dims[1]), SnapDown(window_dims[2])>>

NeedsCorrection(window_dims) == window_dims[1] % 4 # 0 \/ window_dims[2] % 4 # 0

\* variant of the resize branch that broadcasts window_resized before the
\* stage manager has resized
ResizeCalls_HookFirst(window_dims) ==
    (IF NeedsCorrection(window_dims) THEN <<"win.request_properties">> ELSE <<>>)
    \o <<"hook:window_resized",
          "_compute_render_resolution",
          "light_mgr.compute_tile_size",
          "stage_mgr.handle_window_resize",
          "debugger.handle_window_resize">>

\* lines 432-445: the calls of the resize branch, in the order of the code
ResizeCalls(window_dims) ==
    (IF NeedsCorrection(window_dims) THEN <<"win.request_properties">> ELSE <<>>)
    \o <<"_compute_render_resolution",
          "light_mgr.compute_tile_size",
          "stage_mgr.handle_window_resize",
          "debugger.handle_window_resize",
          "hook:window_resized">>

\* _handle_window_event, for an event at which the window has the size
\* window_dims
_handle_window_event ==
    /\ \E window_dims \in Dims :
        /\ win_size' = window_dims
        /\ ev_repeat' = (lastOp = "_handle_window_event" /\ window_dims = win_size)
        /\ IF ResizeSeen(window_dims)
           THEN /\ _last_window_dims' = LastDimsStored(window_dims)
                /\ size_request' = IF NeedsCorrection(window_dims)
                                   THEN Corrected(window_dims) ELSE size_request
                /\ native_resolution' = Corrected(window_dims)
                /\ resolution' = ComputeRenderResolution(Corrected(window_dims),
                                                         settings.resolution_scale)
                /\ calls' = <<"showbase.windowEvent">> \o ResizeCalls(window_dims)
           ELSE /\ calls' = <<"showbase.windowEvent">>
                /\ UNCHANGED <<_last_window_dims, size_request, native_resolution,
                               resolution>>
    /\ log' = <<>>
    /\ lastOp' = "_handle_window_event"
    /\ UNCHANGED <<effectVars, stageVars, reloadVars, configVars, createVars, menuVars, last_path, frameVars>>

\* _init_globals: the resolutions taken from the window at startup
InitResolutions ==
    /\ native_resolution = win_size
    /\ _last_window_dims = win_size
    /\ resolution = ComputeRenderResolution(win_size, settings.resolution_scale)
    /\ size_request = <<0, 0>>
    /\ ev_repeat = FALSE

NextResize == _handle_window_event

-----------------------------------------------------------------------------
(* The built-in stages                                                     *)

\* the stages _init_common_stages always creates, in the order of its list
BaseStages ==
    <<"AmbientStage", "GBufferStage", "FinalStage", "ConvertDepthStage",
      "CombineVelocityStage", "ComputeLowPrecisionNormalsStage", "MenuBlurStage">>

Abs(x) == IF x < 0 THEN -x ELSE x

\* abs(1 - resolution_scale) > 0.005, for the scale num / den
ScaleDiffers(scale) == Abs(scale.den - scale.num) * 200 > scale.den

\* variant of the list that holds UpscaleStage whenever the scale is not 1
builtin_stages_UpscaleUnlessOne(cfg) ==
    BaseStages
    \o (IF cfg.resolution_scale.num # cfg.resolution_scale.den
        THEN <<"UpscaleStage">> ELSE <<>>)
    \o (IF ~is_plugin_enabled("color_correction") THEN <<"SRGBCorrectionStage">> ELSE <<>>)
    \o (IF cfg.reference_mode THEN <<"ReferenceStage">> ELSE <<>>)

\* the list builtin_stages once the three conditions have been evaluated
builtin_stages(cfg) ==
    BaseStages
    \o (IF ScaleDiffers(cfg.resolution_scale) THEN <<"UpscaleStage">> ELSE <<>>)
    \o (IF ~is_plugin_enabled("color_correction") THEN <<"SRGBCorrectionStage">> ELSE <<>>)
    \o (IF cfg.reference_mode THEN <<"ReferenceStage">> ELSE <<>>)

\* _init_common_stages(): create() calls it once, through _create_managers,
\* before any task or event handler is registered
_init_common_stages ==
    /\ _stage_instances = {}
    /\ LET builtin == builtin_stages(settings)
       IN /\ _stage_instances' = {builtin[i] : i \in 1..Len(builtin)}
          /\ stages' = stages \o builtin
          /\ calls' = [i \in 1..Len(builtin) |-> "stage_mgr.add_stage"]
    /\ log' = <<>>
    /\ lastOp' = "_init_common_stages"
    /\ UNCHANGED <<setup_status, stage_order, allocated, effectVars, reloadVars,
                   configVars, createVars, menuVars, last_path, frameVars, resizeVars>>

-----------------------------------------------------------------------------
(* The menu                                                                *)

InitMenu ==
    /\ _rendering_enabled = TRUE
    /\ rendering_paused = FALSE
    /\ blur_enabled = FALSE

MsgAlreadyInMenu == "error: Already in menu, cannot call enter_menu again!"
MsgNotInMenu == "error: Not in menu, cannot call exit_menu!"

\* variant of enter_menu without the check of _rendering_enabled
enter_menu_Unguarded ==
    /\ "MenuBlurStage" \in _stage_instances
    /\ _rendering_enabled' = FALSE
    /\ rendering_paused' = TRUE
    /\ blur_enabled' = TRUE
    /\ calls' = <<"stage_mgr.pause_rendering", "MenuBlurStage.enable_blur">>
    /\ log' = <<>>
    /\ lastOp' = "enter_menu"
    /\ UNCHANGED <<effectVars, stageVars, reloadVars, configVars, createVars, last_path,
                   frameVars, resizeVars>>

\* enter_menu(), on a pipeline whose built-in stages exist
enter_menu ==
    /\ "MenuBlurStage" \in _stage_instances
    /\ IF ~_rendering_enabled
       THEN /\ log' = <<MsgAlreadyInMenu>>
            /\ calls' = <<>>
            /\ UNCHANGED menuVars
       ELSE /\ _rendering_enabled' = FALSE
            /\ rendering_paused' = TRUE
            /\ blur_enabled' = TRUE
            /\ calls' = <<"stage_mgr.pause_rendering", "MenuBlurStage.enable_blur">>
            /\ log' = <<>>
    /\ lastOp' = "enter_menu"
    /\ UNCHANGED <<effectVars, stageVars, reloadVars, configVars, createVars, last_path,
                   frameVars, resizeVars>>

\* variant of exit_menu without line 710: the flag stays False
exit_menu_KeepsFlag ==
    /\ "MenuBlurStage" \in _stage_instances
    /\ IF _rendering_enabled
       THEN /\ log' = <<MsgNotInMenu>>
            /\ calls' = <<>>
            /\ UNCHANGED menuVars
       ELSE /\ rendering_paused' = FALSE
            /\ blur_enabled' = FALSE
            /\ UNCHANGED _rendering_enabled
            /\ calls' = <<"stage_mgr.resume_rendering", "MenuBlurStage.disable_blur">>
            /\ log' = <<>>
    /\ lastOp' = "exit_menu"
    /\ UNCHANGED <<effectVars, stageVars, reloadVars, configVars, createVars, last_path,
                   frameVars, resizeVars>>

\* exit_menu(), on a pipeline whose built-in stages exist
exit_menu ==
    /\ "MenuBlurStage" \in _stage_instances
    /\ IF _rendering_enabled
       THEN /\ log' = <<MsgNotInMenu>>
            /\ calls' = <<>>
            /\ UNCHANGED menuVars
       ELSE /\ rendering_paused' = FALSE
            /\ blur_enabled' = FALSE
            /\ _rendering_enabled' = TRUE
            /\ calls' = <<"stage_mgr.resume_rendering", "MenuBlurStage.disable_blur">>
            /\ log' = <<>>
    /\ lastOp' = "exit_menu"
    /\ UNCHANGED <<effectVars, stageVars, reloadVars, configVars, createVars, last_path,
                   frameVars, resizeVars>>

-----------------------------------------------------------------------------
(* create()                                                                *)

\* the window sizes the pipeline is started with
StartSizes == {<<MaxDim, MaxDim>>, <<8, 8>>, <<7, 6>>}

MsgNoCompute == "fatal: Sorry, your GPU does not support compute shaders!"

\* variant of the test of line 170 that lets every GPU pass
MissingComputeShaders_Ignored(gsg_supports) == FALSE

\* line 170: not self._showbase.win.gsg.supports_compute_shaders
MissingComputeShaders(gsg_supports) == ~gsg_supports

\* _create_default_skybox: set_effect(skybox, "effects/skybox.yaml", {...}, 1000)
SkyboxArgs ==
    [nodepath |-> "skybox", effect_src |-> "effects/skybox.yaml",
     options |-> {"gbuffer"}, sort |-> 1000]

\* the calls of create() up to the test of the GPU
CreateCallsBefore == <<"_init_showbase">>

\* variant of create() that binds the default effect before it creates the
\* managers
CreateCallsAfter_DefaultEffectFirst ==
    <<"_init_globals", "loading_screen.create", "_adjust_camera_settings",
      "set_effect:render",
      "_create_managers", "_init_common_stages", "plugin_mgr.load",
      "daytime_mgr.load_settings", "common_resources.write_config", "_init_debugger",
      "hook:stage_setup", "hook:post_stage_setup",
      "_create_common_defines",
      "stage_mgr.setup", "stage_mgr.reload_shaders", "light_mgr.reload_shaders",
      "_init_bindings", "light_mgr.init_shadows",
      "set_effect:skybox",
      "hook:pipeline_created",
      "NetworkCommunication">>

\* the calls of create() after the test of the GPU, in the order of the code;
\* _initialize_managers and _create_default_skybox are spelled as the calls
\* they make
CreateCallsAfter ==
    <<"_init_globals", "loading_screen.create", "_adjust_camera_settings",
      "_create_managers", "_init_common_stages", "plugin_mgr.load",
      "daytime_mgr.load_settings", "common_resources.write_config", "_init_debugger",
      "hook:stage_setup", "hook:post_stage_setup",
      "_create_common_defines",
      "stage_mgr.setup", "stage_mgr.reload_shaders", "light_mgr.reload_shaders",
      "_init_bindings", "light_mgr.init_shadows",
      "set_effect:skybox",
      "hook:pipeline_created",
      "NetworkCommunication", "set_effect:render">>

\* the names of the tasks _init_bindings hands to the task manager
BoundTasks(cfg) ==
    ({t.name : t \in Tasks(cfg)} \ {"igLoop"}) \cup {"RP_ClearStateCache"}

\* create(): RPObject.fatal ends the program, so nothing after it runs.  The
\* pipes of the built-in stages are not modelled; stage_mgr.setup keeps them in
\* the order of their registration.
create ==
    /\ create_status = "new"
    /\ lastOp' = "create"
    /\ IF MissingComputeShaders(supports_compute_shaders)
       THEN /\ create_status' = "fatal"
            /\ calls' = CreateCallsBefore
            /\ log' = <<MsgNoCompute>>
            /\ UNCHANGED <<effectVars, stageVars, frameVars, resizeVars, added_tasks>>
       ELSE LET builtin == builtin_stages(settings)
            IN /\ create_status' = "created"
               /\ calls' = CreateCallsBefore \o CreateCallsAfter
               \* _init_globals
               /\ native_resolution' = win_size
               /\ _last_window_dims' = win_size
               /\ resolution' = ComputeRenderResolution(win_size, settings.resolution_scale)
               \* loading_screen.create()
               /\ loading_screen' = TRUE
               \* _create_managers: _init_common_stages
               /\ _stage_instances' = {builtin[i] : i \in 1..Len(builtin)}
               /\ stages' = stages \o builtin
               \* _initialize_managers: stage_mgr.setup, _init_bindings
               /\ setup_status' = "ok"
               /\ stage_order' = stages'
               /\ allocated' = {stages'[i] : i \in 1..Len(stages')}
               /\ added_tasks' = BoundTasks(settings)
               \* _create_default_skybox, _set_default_effect
               /\ _applied_effects' =
                      AppendArgs(AppendArgs(_applied_effects, SkyboxArgs), DefaultEffectArgs)
               /\ node_state' = InternalSetEffect(node_state, DefaultEffectArgs)
               /\ log' = InternalSetEffectLog(DefaultEffectArgs)
               /\ UNCHANGED <<replayed, tick_trace, frame_count, win_size, size_request,
                              ev_repeat>>
    /\ UNCHANGED <<supports_compute_shaders, reloadVars, configVars, menuVars, last_path>>

-----------------------------------------------------------------------------
(* Initial states and specifications                                       *)

InitEffects ==
    /\ _applied_effects = <<>>
    /\ node_state = [n \in Nodes |-> [p \in PassSet |-> Unbound]]
    /\ replayed = <<>>

InitOp ==
    /\ log = <<>>
    /\ calls = <<>>
    /\ lastOp = "__init__"

\* create() has not been called; the GPU is one create() accepts
InitCreate ==
    /\ supports_compute_shaders = TRUE
    /\ create_status = "new"
    /\ added_tasks = {}

Init ==
    /\ InitEffects
    /\ InitOp
    /\ InitStages
    /\ InitReload
    /\ settings = DefaultSettings
    /\ enabled_plugins = Plugins
    /\ InitMenu
    /\ last_path = <<>>
    /\ InitCreate
    /\ InitFrameVars
    /\ win_size = <<MaxDim, MaxDim>>
    /\ InitResolutions

\* the state after construction, for any configuration of the watcher
InitFrame ==
    /\ InitEffects
    /\ InitOp
    /\ InitStages
    /\ InitReload
    /\ settings \in {cfg \in Settings :
            /\ cfg.resolution_scale = DefaultSettings.resolution_scale
            /\ cfg.reference_mode = DefaultSettings.reference_mode
            /\ cfg.display_debugger = DefaultSettings.display_debugger}
    /\ enabled_plugins = Plugins
    /\ InitMenu
    /\ last_path = <<>>
    /\ InitCreate
    /\ InitFrameVars
    /\ win_size = <<MaxDim, MaxDim>>
    /\ InitResolutions

\* the state after construction, for any window size and resolution scale
InitResize ==
    /\ InitEffects
    /\ InitOp
    /\ InitStages
    /\ InitReload
    /\ settings \in {cfg \in Settings :
            /\ cfg.auto_reload_plugin_shaders = DefaultSettings.auto_reload_plugin_shaders
            /\ cfg.reference_mode = DefaultSettings.reference_mode
            /\ cfg.display_debugger = DefaultSettings.display_debugger}
    /\ enabled_plugins = Plugins
    /\ InitMenu
    /\ last_path = <<>>
    /\ InitCreate
    /\ InitFrameVars
    /\ win_size \in Dims
    /\ InitResolutions

NextEffects ==
    \/ set_effect
    \/ _set_default_effect
    \/ reload_shaders

SpecEffects == Init /\ [][NextEffects]_vars

SpecStages == Init /\ [][NextStages]_vars

SpecReload == Init /\ [][NextReload]_vars

SpecFrame == InitFrame /\ [][NextFrame]_vars

SpecResize == InitResize /\ [][NextResize]_vars

\* the state after construction, for any resolution scale, reference mode
\* and set of enabled plugins
InitAssembly ==
    /\ InitEffects
    /\ InitOp
    /\ InitStages
    /\ InitReload
    /\ settings \in {cfg \in Settings :
            /\ cfg.auto_reload_plugin_shaders = DefaultSettings.auto_reload_plugin_shaders
            /\ cfg.display_debugger = DefaultSettings.display_debugger}
    /\ enabled_plugins \in SUBSET Plugins
    /\ InitMenu
    /\ last_path = <<>>
    /\ InitCreate
    /\ InitFrameVars
    /\ win_size = <<MaxDim, MaxDim>>
    /\ InitResolutions

\* the assembly of the built-in stages, the tasks of the frames and shader
\* reloads
NextAssembly ==
    \/ _init_common_stages
    \/ NextFrame
    \/ reload_shaders

SpecAssembly == InitAssembly /\ [][NextAssembly]_vars

SpecWatch == Init /\ [][NextWatch]_vars

\* the menu calls on an assembled pipeline, while the tasks of the frames run
NextMenu ==
    \/ _init_common_stages
    \/ enter_menu
    \/ exit_menu
    \/ NextFrame

SpecMenu == InitAssembly /\ [][NextMenu]_vars

\* the state after construction, for any GPU, resolution scale and size of
\* the window
InitStartup ==
    /\ InitEffects
    /\ InitOp
    /\ InitStages
    /\ InitReload
    /\ settings \in {cfg \in Settings :
            /\ cfg.auto_reload_plugin_shaders = DefaultSettings.auto_reload_plugin_shaders
            /\ cfg.reference_mode = DefaultSettings.reference_mode
            /\ cfg.display_debugger = DefaultSettings.display_debugger}
    /\ enabled_plugins = Plugins
    /\ InitMenu
    /\ last_path = <<>>
    /\ supports_compute_shaders \in BOOLEAN
    /\ create_status = "new"
    /\ added_tasks = {}
    /\ InitFrameVars
    /\ win_size \in StartSizes
    /\ InitResolutions

\* create(), and then the window events its handler receives
NextCreate ==
    \/ create
    \/ (create_status = "created" /\ _handle_window_event)

SpecCreate == InitStartup /\ [][NextCreate]_vars

\* the state after construction, with or without the debugger and the watcher
InitShaderReload ==
    /\ InitEffects
    /\ InitOp
    /\ InitStages
    /\ InitReload
    /\ settings \in {cfg \in Settings :
            /\ cfg.resolution_scale = DefaultSettings.resolution_scale
            /\ cfg.reference_mode = DefaultSettings.reference_mode}
    /\ enabled_plugins = Plugins
    /\ InitMenu
    /\ last_path = <<>>
    /\ InitCreate
    /\ InitFrameVars
    /\ win_size = <<MaxDim, MaxDim>>
    /\ InitResolutions

\* shader reloads of a scene with the default effect, while the tasks of
\* the frames run
NextShaderReload ==
    \/ _set_default_effect
    \/ reload_shaders
    \/ NextFrame

SpecShaderReload == InitShaderReload /\ [][NextShaderReload]_vars

-----------------------------------------------------------------------------
(* Properties of the effect bindings                                       *)

Range(s) == {s[i] : i \in 1..Len(s)}

\* the arguments of the latest set_effect call
LastArgs == _applied_effects[Len(_applied_effects)]

\* the last operation was a set_effect whose effect loaded
BoundLast ==
    /\ lastOp = "set_effect"
    /\ _applied_effects # <<>>
    /\ ~EffectIsNone(LastArgs.effect_src)

LastEffect == Effect_load(LastArgs.effect_src, LastArgs.options)

C5_BothPassesBound ==
    (BoundLast /\ {"gbuffer", "forward"} \subseteq LastArgs.options) =>
        /\ MsgBoth \in Range(log)
        /\ \A p \in {"gbuffer", "forward"} :
            /\ node_state[LastArgs.nodepath][p].vis = "shown"
            /\ node_state[LastArgs.nodepath][p].shader = get_shader_obj(LastEffect, p)

C5_Witness ==
    /\ BoundLast
    /\ {"gbuffer", "forward"} \subseteq LastArgs.options
    /\ MsgBoth \in Range(log)

\* C5 (as claimed): binding an effect that enables both render_gbuffer and
\* render_forward logs the error and deferred rendering takes precedence:
\* the node is bound and shown for gbuffer, hidden and unbound for forward.
C5_DeferredTakesPrecedence ==
    (BoundLast /\ {"gbuffer", "forward"} \subseteq LastArgs.options) =>
        /\ MsgBoth \in Range(log)
        /\ node_state[LastArgs.nodepath]["gbuffer"].vis = "shown"
        /\ node_state[LastArgs.nodepath]["gbuffer"].shader
              = get_shader_obj(LastEffect, "gbuffer")
        /\ node_state[LastArgs.nodepath]["forward"].vis = "hidden"
        /\ node_state[LastArgs.nodepath]["forward"].shader
              # get_shader_obj(LastEffect, "forward")

\* C6: a set_effect whose effect loads treats every pass p on its own option:
\* render_p disabled hides the node under p's mask and applies no shader of p
\* (the pass's shader and sort stay what they were); render_p enabled applies
\* p's compiled shader and shows the node under p's mask.
C6_PerPassBinding ==
    [][(lastOp' = "set_effect" /\ Len(_applied_effects') = Len(_applied_effects) + 1
            /\ ~EffectIsNone(LastArgs'.effect_src)) =>
        \A p \in PassSet :
            LET before == node_state[LastArgs'.nodepath][p]
                after == node_state'[LastArgs'.nodepath][p]
            IN IF p \notin LastArgs'.options
               THEN /\ after.vis = "hidden"
                    /\ after.shader = before.shader
                    /\ after.sort = before.sort
               ELSE /\ after.vis = "shown"
                    /\ after.shader = get_shader_obj(LastEffect', p)
      ]_vars

\* a second binding of a node showed it for gbuffer and forward_prepass and
\* hid it for forward, whose shader from the first binding is still applied
C6_Witness ==
    /\ BoundLast
    /\ Len(_applied_effects) = 2
    /\ LastArgs.options = {"gbuffer", "forward_prepass"}
    /\ node_state[LastArgs.nodepath]["forward"].vis = "hidden"
    /\ node_state[LastArgs.nodepath]["forward"].shader # NoShader
    /\ node_state[LastArgs.nodepath]["forward_prepass"].vis = "shown"

\* C7: after a set_effect with caller sort s, the shader of every enabled
\* pass other than gbuffer, at index i of the pass order (counted from 0), is
\* applied with sort 25 + 10*i + s, and the gbuffer shader with sort 25.
C7_EffectiveSort ==
    BoundLast =>
        \A k \in 1..Len(Passes) :
            Passes[k] \in LastArgs.options =>
                node_state[LastArgs.nodepath][Passes[k]].sort =
                    IF Passes[k] = "gbuffer" THEN 25
                    ELSE 25 + 10 * (k - 1) + LastArgs.sort

C7_Witness ==
    /\ BoundLast
    /\ LastArgs.sort = 1000
    /\ node_state[LastArgs.nodepath]["gbuffer"].sort = 25
    /\ node_state[LastArgs.nodepath]["shadow"].sort = 1055

TwoBindingsSecondLower ==
    /\ Len(_applied_effects) = 2
    /\ _applied_effects[1].nodepath = _applied_effects[2].nodepath
    /\ ~EffectIsNone(_applied_effects[1].effect_src)
    /\ ~EffectIsNone(_applied_effects[2].effect_src)
    /\ _applied_effects[2].sort < _applied_effects[1].sort

DefaultThenPerObject ==
    /\ Len(_applied_effects) = 2
    /\ _applied_effects[1] = DefaultEffectArgs
    /\ _applied_effects[2].nodepath = "model"
    /\ ~EffectIsNone(_applied_effects[2].effect_src)
    /\ _applied_effects[2].sort >= 30

\* the passes both the default binding and the per-object binding enable
SharedPasses == DefaultEffectArgs.options \cap _applied_effects[2].options

\* C14 (as amended): for every pass other than gbuffer that both bindings
\* enable, the per-object binding (sort 30 or higher) is applied with an
\* effective sort strictly greater than that of the whole-scene default
\* binding (sort -10); for the gbuffer pass both are applied with sort 25.
C14_PerObjectSortAboveDefault ==
    DefaultThenPerObject =>
        \A p \in SharedPasses :
            IF p = "gbuffer"
            THEN /\ node_state["model"][p].sort = 25
                 /\ node_state["render"][p].sort = 25
            ELSE node_state["model"][p].sort > node_state["render"][p].sort

\* the default effect was bound to the model with sort 30 after the default
\* binding: shadow has sort 85 on the model and 45 on render
C14_Witness ==
    /\ DefaultThenPerObject
    /\ _applied_effects[2].sort = 30
    /\ SharedPasses = DefaultOptions
    /\ node_state["model"]["shadow"].sort = 85
    /\ node_state["render"]["shadow"].sort = 45

\* C14 (as claimed): for every pass both bindings enable, the per-object
\* binding is applied with an effective sort strictly greater than that of
\* the whole-scene default binding.
C14_StrictlyGreaterInEveryPass ==
    DefaultThenPerObject =>
        \A p \in SharedPasses :
            node_state["model"][p].sort > node_state["render"][p].sort

Count(s, x) == Cardinality({i \in 1..Len(s) : s[i] = x})

\* the effect of args loads and enables both gbuffer and forward
ConflictBoth(args) ==
    ~EffectIsNone(args.effect_src) /\ {"gbuffer", "forward"} \subseteq args.options

\* the effect of args loads and enables forward_prepass without forward
ConflictPrepass(args) ==
    /\ ~EffectIsNone(args.effect_src)
    /\ "forward_prepass" \in args.options
    /\ "forward" \notin args.options

\* C16 (as amended): the option conflicts are checked whenever an effect is
\* bound: a set_effect of an effect with conflicting options logs the error,
\* also when the same effect was bound before, and a reload_shaders logs it
\* once for every entry of the replay log that has the conflict.
C16_ValidatedAtEveryBind ==
    /\ (lastOp = "set_effect" /\ _applied_effects # <<>>) =>
            /\ Count(log, MsgBoth) = IF ConflictBoth(LastArgs) THEN 1 ELSE 0
            /\ Count(log, MsgPrepass) = IF ConflictPrepass(LastArgs) THEN 1 ELSE 0
    /\ lastOp = "reload_shaders" =>
            /\ Count(log, MsgBoth) =
                 Cardinality({i \in 1..Len(_applied_effects) :
                                ConflictBoth(_applied_effects[i])})
            /\ Count(log, MsgPrepass) =
                 Cardinality({i \in 1..Len(_applied_effects) :
                                ConflictPrepass(_applied_effects[i])})

\* a reload replayed two bindings of the same gbuffer+forward effect and
\* logged the error twice
C16_Witness ==
    /\ lastOp = "reload_shaders"
    /\ Len(_applied_effects) = 2
    /\ _applied_effects[1].effect_src = _applied_effects[2].effect_src
    /\ _applied_effects[1].options = _applied_effects[2].options
    /\ ConflictBoth(_applied_effects[1])
    /\ log = <<MsgBoth, MsgBoth>>

\* C16 (as claimed): binding an effect with conflicting options a second
\* time, or replaying its binding in reload_shaders, logs no validation
\* error.
C16_ValidatedOnlyAtCompilation ==
    /\ (/\ lastOp = "set_effect"
        /\ Len(_applied_effects) = 2
        /\ _applied_effects[1].effect_src = _applied_effects[2].effect_src
        /\ _applied_effects[1].options = _applied_effects[2].options) =>
            (MsgBoth \notin Range(log) /\ MsgPrepass \notin Range(log))
    /\ lastOp = "reload_shaders" =>
            (MsgBoth \notin Range(log) /\ MsgPrepass \notin Range(log))

-----------------------------------------------------------------------------
(* Properties of the stage graph                                           *)

\* producer -> consumer edges among a set of stages
FeedsInto(S) == {e \in S \X S : produced_pipes(e[1]) \cap required_pipes(e[2]) # {}}

RECURSIVE ReachableFrom(_, _, _)
\* the stages reachable from the set cur along the edges E, in at least
\* one step
ReachableFrom(E, cur, seen) ==
    LET next == {e[2] : e \in {f \in E : f[1] \in cur}} \ seen
    IN IF next = {} THEN seen ELSE ReachableFrom(E, next, seen \cup next)

Cyclic(S) == \E s \in S : s \in ReachableFrom(FeedsInto(S), {s}, {})

UnderProduced(S) ==
    \E s \in S : \E pipe \in required_pipes(s) :
        \A t \in S : pipe \notin produced_pipes(t)

Registered == {stages[i] : i \in 1..Len(stages)}

\* C2: once setup has run: if the registered stages are acyclic and every
\* required pipe is produced, the order holds every registered stage once
\* and every pipe a stage requires is produced by a strictly earlier stage;
\* if they are cyclic (as with SharpenStage, which requires and produces
\* ShadedScene) or a required pipe is unproduced, setup is fatal and no stage
\* resource has been allocated.
C2_ResolveOrder ==
    setup_status # "pending" =>
        /\ IF ~Cyclic(Registered) /\ ~UnderProduced(Registered)
           THEN /\ setup_status = "ok"
                /\ Len(stage_order) = Len(stages)
                /\ {stage_order[i] : i \in 1..Len(stage_order)} = Registered
                /\ \A i \in 1..Len(stage_order) :
                     \A pipe \in required_pipes(stage_order[i]) :
                        \E j \in 1..(i - 1) : pipe \in produced_pipes(stage_order[j])
           ELSE /\ setup_status = "fatal"
                /\ allocated = {}
        /\ "SharpenStage" \in Registered =>
                (setup_status = "fatal" /\ allocated = {})

\* C, B, A registered in that order were resolved to A, B, C
C2_Witness ==
    /\ setup_status = "ok"
    /\ stages = <<"C", "B", "A">>
    /\ stage_order = <<"A", "B", "C">>
    /\ allocated = {"A", "B", "C"}

-----------------------------------------------------------------------------
(* Properties of the built-in stages                                       *)

\* the built-in stages the configuration selects
SelectedStages ==
    Range(BaseStages)
    \cup (IF ScaleDiffers(settings.resolution_scale) THEN {"UpscaleStage"} ELSE {})
    \cup (IF "color_correction" \notin enabled_plugins THEN {"SRGBCorrectionStage"} ELSE {})
    \cup (IF settings.reference_mode THEN {"ReferenceStage"} ELSE {})

-----------------------------------------------------------------------------
(* Properties of the menu                                                  *)

\* C19: stage rendering is paused and resumed only in enter_menu and
\* exit_menu; enter_menu while paused logs an error and changes nothing (no
\* pause_rendering, no enable_blur, still paused); exit_menu while not paused
\* logs an error and changes nothing (no resume_rendering, no disable_blur,
\* still running).
C19_MenuCallsGuarded ==
    [][/\ rendering_paused' # rendering_paused => lastOp' \in {"enter_menu", "exit_menu"}
       /\ (lastOp' = "enter_menu" /\ rendering_paused) =>
            /\ log' = <<MsgAlreadyInMenu>>
            /\ calls' = <<>>
            /\ UNCHANGED menuVars
       /\ (lastOp' = "exit_menu" /\ ~rendering_paused) =>
            /\ log' = <<MsgNotInMenu>>
            /\ calls' = <<>>
            /\ UNCHANGED menuVars
      ]_vars

\* enter_menu was called in the menu, frames after the pipeline was paused
C19_Witness ==
    /\ lastOp = "enter_menu"
    /\ log = <<MsgAlreadyInMenu>>
    /\ rendering_paused
    /\ blur_enabled
    /\ ~_rendering_enabled
    /\ frame_count >= 1

-----------------------------------------------------------------------------
(* Properties of the plugin reload queue                                   *)

\* C3: when the task is not in its loop, every loaded plugin that the
\* watcher enqueued (once or several times) between the last two runs got
\* exactly one reload_shaders call in the last run.
C3_OneReloadPerEnqueuedPlugin ==
    main_pc # "iterating" =>
        \A p \in expected \cap instances : reload_calls[p] = 1

\* C4: no id is added to a set that no later run drains, and the set being
\* drained is never changed while the task iterates over it.
C4_SwapAndDrainAtomic ==
    /\ lost = {}
    /\ ~iter_modified

\* the path lies inside the plugins root: below base_path
InsideRoot(pth) == StartsWith(pth, base_path \o <<"/">>)

\* the first segment of the path relative to the plugins root
FirstSegment(pth) ==
    Spelled(FirstPart(Strip(SubSeq(pth, Len(base_path) + 1, Len(pth)))))

\* C17: a file event adds a plugin id to the reload queue if and only if its
\* path lies inside the plugins root and ends with .glsl, and the id is then
\* the first path segment relative to the root; every other event, one for a
\* path in a sibling directory whose name begins with the root's included,
\* leaves the queue unchanged.
C17_QueuedIffShaderInsideRoot ==
    [][lastOp' = "on_modified" =>
        LET pth == ReplaceBackslashes(last_path')
        IN IF InsideRoot(pth) /\ EndsWith(pth, GlslSuffix)
           THEN _queued_plugin_reloads' =
                    _queued_plugin_reloads \cup {FirstSegment(pth)}
           ELSE _queued_plugin_reloads' = _queued_plugin_reloads
      ]_vars

\* C20: the loop step that meets an id that is no loaded plugin logs a
\* warning and invokes no reload; and once a run that drained such an id has
\* left its loop, every loaded plugin of the same drained set has been
\* reloaded once and the task has returned task.cont, so that it runs again.
C20_InvalidIdSkipped ==
    [][/\ (main_pc = "iterating" /\ "not_a_plugin" \in visited' \ visited) =>
            /\ log' = <<"warn: Got invalid plugin_id">>
            /\ calls' = <<>>
            /\ reload_calls' = reload_calls
       /\ reload_calls'["not_a_plugin"] = 0
       /\ ("not_a_plugin" \in to_reload' /\ main_pc' # "iterating") =>
            /\ main_pc' = "idle"
            /\ \A p \in to_reload' \cap instances : reload_calls'[p] = 1
      ]_vars

-----------------------------------------------------------------------------
(* Properties of the frame                                                 *)

\* the order the steps of a frame are claimed to run in
ClaimedFrameOrder ==
    <<"RP_UpdateManagers", "RP_Plugin_BeforeRender", "RP_UpdateInputsAndStages",
      "igLoop", "RP_Plugin_AfterRender">>

\* C8: within a frame a step runs only after every step claimed to precede
\* it: manager update, pre_render_update hook, stage input update, GPU
\* submission, post_render_update hook; so the post_render_update hook never
\* runs before the stage input update of the same frame.
C8_FrameOrder ==
    \A i \in 1..Len(tick_trace) :
        \A k \in 1..Len(ClaimedFrameOrder) :
            tick_trace[i] = ClaimedFrameOrder[k] =>
                \A m \in 1..(k - 1) :
                    \E j \in 1..(i - 1) : tick_trace[j] = ClaimedFrameOrder[m]

-----------------------------------------------------------------------------
(* Properties of the render resolution                                     *)

ScaleAtMostOne == settings.resolution_scale.num <= settings.resolution_scale.den

\* C9 (as amended): after a window event at size (w, h) the render
\* resolution is a multiple of 4 in each axis, and it is at most w and h
\* when resolution_scale is at most 1.
C9_RenderResolutionSnapped ==
    lastOp = "_handle_window_event" =>
        \A i \in 1..2 :
            /\ resolution[i] % 4 = 0
            /\ ScaleAtMostOne => resolution[i] <= win_size[i]

\* a 9 x 6 window at scale 3/4 was handled: native 8 x 4, rendered at 4 x 0
C9_Witness ==
    /\ lastOp = "_handle_window_event"
    /\ settings.resolution_scale = [num |-> 3, den |-> 4]
    /\ win_size = <<9, 6>>
    /\ _last_window_dims = <<9, 6>>
    /\ native_resolution = <<8, 4>>
    /\ resolution = <<4, 0>>

\* C9 (as claimed): after a window event at size (w, h), for every
\* resolution_scale, the render resolution is a multiple of 4 and at most w
\* and h in each axis.
C9_RenderResolutionAtMostWindow ==
    lastOp = "_handle_window_event" =>
        \A i \in 1..2 :
            /\ resolution[i] % 4 = 0
            /\ resolution[i] <= win_size[i]

\* C10: a window event that reports the size the event before it reported
\* leaves the native resolution, the render resolution and the last-seen
\* window dimensions as the first event left them.
C10_SameSizeEventIdempotent ==
    [][(lastOp = "_handle_window_event" /\ lastOp' = "_handle_window_event"
            /\ win_size' = win_size) =>
        UNCHANGED <<native_resolution, resolution, _last_window_dims>>]_vars

\* two events in a row reported 7 x 6, which was corrected to 4 x 4
C10_Witness ==
    /\ ev_repeat
    /\ win_size = <<7, 6>>
    /\ _last_window_dims = <<7, 6>>
    /\ native_resolution = <<4, 4>>
    /\ size_request = <<4, 4>>

-----------------------------------------------------------------------------
(* Properties of create()                                                  *)

\* the names in the call trace of create() that create a manager or a stage,
\* broadcast a plugin hook or bind an effect
ManagerCalls == {"_create_managers", "_init_common_stages", "stage_mgr.setup"}

HookCalls == {"hook:stage_setup", "hook:post_stage_setup", "hook:pipeline_created"}

EffectCalls == {"set_effect:skybox", "set_effect:render"}

\* C21: when the GPU does not support compute shaders, create() ends with a
\* fatal error and has by then created no manager and no stage, broadcast no
\* plugin hook, bound no effect and registered no per-frame task
C21_NoComputeShadersAbortsEarly ==
    [][(lastOp' = "create" /\ ~supports_compute_shaders) =>
        /\ create_status' = "fatal"
        /\ log' = <<MsgNoCompute>>
        /\ Range(calls') \cap (ManagerCalls \cup HookCalls \cup EffectCalls
                                \cup {"_init_bindings"}) = {}
        /\ stages' = <<>> /\ _stage_instances' = {}
        /\ _applied_effects' = <<>>
        /\ added_tasks' = {}]_vars

\* create() ran on a GPU without compute shaders
C21_Witness ==
    /\ lastOp = "create"
    /\ ~supports_compute_shaders
    /\ create_status = "fatal"

-----------------------------------------------------------------------------
(* Properties of reload_shaders                                            *)

\* the position of the first x in s, 0 when s has none
Pos(s, x) ==
    IF \E i \in 1..Len(s) : s[i] = x
    THEN CHOOSE i \in 1..Len(s) : s[i] = x /\ \A j \in 1..(i - 1) : s[j] # x
    ELSE 0

\* what runs a tick of the frame: the tasks, and the rendering of a frame
TickCalls == {t.name : t \in Tasks(settings)} \cup {"graphics_engine.render_frame"}

\* C22: one reload_shaders call clears the cached tag states, then lets the
\* stages recompile, then the light manager, then broadcasts shader_reload,
\* each once, and re-applies the entries of the replay log only after the
\* hook; no task of the frame and no rendering of a frame happens from the
\* clearing of the states on
C22_ReloadPhasesInOrder ==
    [][lastOp' = "reload_shaders" =>
        LET c == calls'
            first == Pos(c, "tag_mgr.cleanup_states")
        IN /\ \A x \in {"tag_mgr.cleanup_states", "stage_mgr.reload_shaders",
                        "light_mgr.reload_shaders", "hook:shader_reload"} :
                    Count(c, x) = 1
           /\ first < Pos(c, "stage_mgr.reload_shaders")
           /\ Pos(c, "stage_mgr.reload_shaders") < Pos(c, "light_mgr.reload_shaders")
           /\ Pos(c, "light_mgr.reload_shaders") < Pos(c, "hook:shader_reload")
           /\ Count(c, "_internal_set_effect") = Len(_applied_effects)
           /\ \A i \in 1..Len(c) :
                    c[i] = "_internal_set_effect" => i > Pos(c, "hook:shader_reload")
           /\ \A i \in first..Len(c) : c[i] \notin TickCalls
           /\ UNCHANGED frameVars]_vars

\* a reload in the middle of a frame, with the debugger shown and an effect
\* to re-apply
C22_Witness ==
    /\ lastOp = "reload_shaders"
    /\ settings.display_debugger
    /\ _applied_effects # <<>>
    /\ replayed # <<>>
    /\ tick_trace # <<>>
    /\ ~FrameDone

-----------------------------------------------------------------------------
(* Properties of the window events                                         *)

\* C23: a window event whose size differs from the last handled size and
\* from the native resolution stores the snapped size as native resolution
\* and recomputes the render resolution before stage_mgr.handle_window_resize,
\* and broadcasts window_resized after it, each once; an event whose size
\* equals either of the two calls neither and changes no resolution
C23_ResizeOrderAndFilter ==
    [][lastOp' = "_handle_window_event" =>
        LET c == calls' IN
        IF win_size' # _last_window_dims /\ win_size' # native_resolution
        THEN /\ native_resolution' = <<win_size'[1] - (win_size'[1] % 4),
                                       win_size'[2] - (win_size'[2] % 4)>>
             /\ resolution' = ComputeRenderResolution(native_resolution',
                                                      settings.resolution_scale)
             /\ Count(c, "_compute_render_resolution") = 1
             /\ Count(c, "stage_mgr.handle_window_resize") = 1
             /\ Count(c, "hook:window_resized") = 1
             /\ Pos(c, "_compute_render_resolution") < Pos(c, "stage_mgr.handle_window_resize")
             /\ Pos(c, "stage_mgr.handle_window_resize") < Pos(c, "hook:window_resized")
        ELSE /\ Count(c, "stage_mgr.handle_window_resize") = 0
             /\ Count(c, "hook:window_resized") = 0
             /\ UNCHANGED <<native_resolution, resolution>>]_vars

\* a resize to a size that had to be snapped was handled and changed the
\* render resolution
C23_Witness ==
    /\ lastOp = "_handle_window_event"
    /\ "stage_mgr.handle_window_resize" \in Range(calls)
    /\ "win.request_properties" \in Range(calls)
    /\ win_size # native_resolution
    /\ _last_window_dims = win_size
    /\ resolution # <<MaxDim - (MaxDim % 4), MaxDim - (MaxDim % 4)>>

\* C24: once create() has run, whenever the render resolution differs from
\* the native resolution in either axis, at startup or after a handled
\* resize, UpscaleStage is among the registered stages
C24_UpscaleWheneverResolutionsDiffer ==
    (create_status = "created" /\ resolution # native_resolution)
        => "UpscaleStage" \in _stage_instances

-----------------------------------------------------------------------------
(* Properties of the menu state                                            *)

\* C25: in every state the enter_menu and exit_menu calls lead to, stage
\* rendering is paused exactly when the menu blur is enabled and exactly
\* when _rendering_enabled is False; pause_rendering is called only while
\* rendering is not paused and resume_rendering only while it is, so the two
\* alternate and pause_rendering comes first
C25_MenuStateConsistent ==
    /\ [](/\ rendering_paused <=> blur_enabled
          /\ rendering_paused <=> ~_rendering_enabled)
    /\ [][/\ "stage_mgr.pause_rendering" \in Range(calls') =>
                (~rendering_paused /\ rendering_paused' /\ lastOp' = "enter_menu")
          /\ "stage_mgr.resume_rendering" \in Range(calls') =>
                (rendering_paused /\ ~rendering_paused' /\ lastOp' = "exit_menu")
         ]_vars

\* the menu was entered and has been left again
C25_Witness ==
    /\ lastOp = "exit_menu"
    /\ calls = <<"stage_mgr.resume_rendering", "MenuBlurStage.disable_blur">>
    /\ ~rendering_paused /\ ~blur_enabled /\ _rendering_enabled

-----------------------------------------------------------------------------
(* Properties of the order of create()                                     *)

\* C26: a create() that succeeds broadcasts stage_setup, post_stage_setup
\* and pipeline_created once each, in this order; stage_mgr.setup and
\* stage_mgr.reload_shaders run after post_stage_setup and before
\* pipeline_created; the default effect is bound to the whole scene once,
\* after pipeline_created, and is the last entry of the replay log
C26_CreateHookOrder ==
    [][(lastOp' = "create" /\ create_status' = "created") =>
        LET c == calls' IN
        /\ \A x \in HookCalls \cup {"stage_mgr.setup", "stage_mgr.reload_shaders",
                                    "set_effect:render"} : Count(c, x) = 1
        /\ Pos(c, "hook:stage_setup") < Pos(c, "hook:post_stage_setup")
        /\ Pos(c, "hook:post_stage_setup") < Pos(c, "stage_mgr.setup")
        /\ Pos(c, "stage_mgr.setup") < Pos(c, "stage_mgr.reload_shaders")
        /\ Pos(c, "stage_mgr.reload_shaders") < Pos(c, "hook:pipeline_created")
        /\ Pos(c, "hook:pipeline_created") < Pos(c, "set_effect:render")
        /\ _applied_effects'[Len(_applied_effects')] = DefaultEffectArgs
        /\ setup_status' = "ok"]_vars

\* create() succeeded: the stages are set up and the scene has the default
\* effect
C26_Witness ==
    /\ lastOp = "create"
    /\ create_status = "created"
    /\ supports_compute_shaders
    /\ setup_status = "ok"
    /\ node_state["render"]["gbuffer"] # Unbound

-----------------------------------------------------------------------------
(* Properties of effects that fail to load                                 *)

\* the entries of the replay log whose effect does not load
FailedEntries(applied) ==
    {i \in 1..Len(applied) : EffectIsNone(applied[i].effect_src)}

\* C27: a set_effect call that logs "Could not apply effect" leaves the
\* visibility and the shader of every pass of every node as they were, yet
\* its arguments are appended to the replay log; every reload_shaders
\* attempts each such entry again, at its place in the log, and logs the
\* error once per such entry
C27_FailedEffectStillLogged ==
    [][/\ (lastOp' = "set_effect" /\ log' = <<MsgNoEffect>>) =>
            /\ node_state' = node_state
            /\ Len(_applied_effects') = Len(_applied_effects) + 1
            /\ SubSeq(_applied_effects', 1, Len(_applied_effects)) = _applied_effects
            /\ Len(_applied_effects') \in FailedEntries(_applied_effects')
       /\ lastOp' = "set_effect" => Len(_applied_effects') = Len(_applied_effects) + 1
       /\ lastOp' = "reload_shaders" =>
            /\ Len(replayed') = Len(_applied_effects)
            /\ \A i \in FailedEntries(_applied_effects) :
                    replayed'[i] = _applied_effects[i]
            /\ Count(log', MsgNoEffect) = Cardinality(FailedEntries(_applied_effects))
      ]_vars

\* a reload re-attempted an effect that does not load and logged the error
C27_Witness ==
    /\ lastOp = "reload_shaders"
    /\ FailedEntries(_applied_effects) # {}
    /\ FailedEntries(replayed) = FailedEntries(_applied_effects)
    /\ MsgNoEffect \in Range(log)

\* C28: after a handled window event whose size had to be snapped and was
\* requested of the window, the event that reports the requested size runs
\* no resize: no stage resize, no window_resized hook, no further size
\* request, and the resolutions and the last handled size stay as they are
C28_SnappedFollowUpIgnored ==
    [][(/\ lastOp = "_handle_window_event"
        /\ "win.request_properties" \in Range(calls)
        /\ lastOp' = "_handle_window_event"
        /\ win_size' = size_request) =>
        /\ calls' = <<"showbase.windowEvent">>
        /\ UNCHANGED <<native_resolution, resolution, _last_window_dims, size_request>>]_vars

\* the window reported the size it was asked to take, and the event was
\* not handled as a resize
C28_Witness ==
    /\ lastOp = "_handle_window_event"
    /\ calls = <<"showbase.windowEvent">>
    /\ win_size = size_request
    /\ win_size = native_resolution
    /\ NeedsCorrection(_last_window_dims)
    /\ Corrected(_last_window_dims) = win_size
    /\ ~ev_repeat

====
